---- MODULE Spec2Model ----
(***************************************************************************)
(* The TLB level of the zsim memory hierarchy: TLB::translate,             *)
(* TLB::access and TLB::invalidate, in the two revisions of tlb.cpp the    *)
(* repository holds:                                                       *)
(*   rev = 0   src/unnamed/part_000  (TLBReq; page walk on every miss,     *)
(*             the nested request alone goes through CC)                   *)
(*   rev = 1   src/unnamed/part_001  (MemReq; CC brackets the access, the  *)
(*             page walk is gated by the pageWalk flag)                    *)
(* CacheArray, ReplPolicy and CC are collaborators whose code is not in    *)
(* src/: the array is modelled from its contract, the replacement policy   *)
(* as any choice of slot, CC as any latency >= 0 and any skip answer.      *)
(*                                                                         *)
(* Two more components of the repository follow the TLB, each with its own *)
(* variables and its own specification: ProcStats (src/src/                *)
(* stats_filter.cpp, the per-process statistics) under SpecProcStats, and  *)
(* Config (src/unnamed/part_002) under SpecConfig.                         *)
(***************************************************************************)
EXTENDS Integers, Sequences, FiniteSets, TLC

(* ------------------------------ bounds -------------------------------- *)
\* issuing cycles are 0 and MaxCycle
MaxCycle == 1
\* a CC call returns its start cycle plus 0 or MaxCCLat
MaxCCLat == 1
\* configured latencies accLat and pageWalkLat are 1..MaxLat, invLat is MaxLat
MaxLat == 1
\* the array is built with 1..MaxLines line slots
MaxLines == 2
\* ProcStats: the core counters are incremented MaxIncs times in all
MaxIncs == 2
\* ProcStats: the simulation runs MaxPhases phases
MaxPhases == 2

(* ------------- widths and constants of tlb.h, scaled down -------------- *)
\* an Address has AddrBits bits, of which the low pageBits are the page offset
AddrBits == 2
pageBits == 1
\* page-table entries per unit of page number, and line offset bits
pteSize == 2
lineBits == 1

Cores == {1, 2}
\* the simulated processes
Procs == {0, 1}
Revs == {0, 1}
Cycles == {0, MaxCycle}
CCLats == {0, MaxCCLat}
Lats == 1 .. MaxLat
RECURSIVE Pow2(_)
Pow2(n) == IF n = 0 THEN 1 ELSE 2 * Pow2(n - 1)
VAddrs == 0 .. (Pow2(AddrBits) - 1)

NotFound == -1
Empty == -1
NoProc == -1
NoCycle == -1

(* ------------------------- bit-level arithmetic ------------------------ *)
\* a >> n on unsigned values
ShiftRight(a, n) == a \div Pow2(n)

\* a | b on unsigned values, bit by bit
RECURSIVE BitOr(_, _)
BitOr(a, b) ==
    IF a = 0 THEN b
    ELSE IF b = 0 THEN a
    ELSE (IF (a % 2 = 1) \/ (b % 2 = 1) THEN 1 ELSE 0) + 2 * BitOr(a \div 2, b \div 2)

\* the mask of a simulated process: its index, shifted past every bit a page
\* number can have
ProcMask(p) == p * Pow2(AddrBits - pageBits)

VARIABLES
    rev,          \* which revision of tlb.cpp this instance runs
    numLines,     \* array capacity, fixed at construction
    accLat,       \* fixed access latency
    invLat,       \* fixed invalidation latency
    pageWalk,     \* rev 1: the per-instance "perform page walk" flag
    pageWalkLat,  \* fixed page-walk latency
    array,        \* CacheArray: slot -> key, or Empty
    owner,        \* history: slot -> the process whose access filled it
    locked,       \* CC: the addresses between a startAccess and its endAccess
    pc,           \* per core: position of its access in TLB::access
    req,          \* per core: the request translate built
    memReq,       \* per core: the nested page-table-entry request, once built
    respCycle,    \* per core: the running cycle
    lineId,       \* per core: the slot lookup / preinsert returned
    WbAddr,       \* per core: the victim key preinsert wrote
    skipAccess,   \* per core: what CC.startAccess answered
    accessed,     \* per core: rev 1, processAccess already done in the walk
    calls,        \* per core: history of the calls this access made
    ret,          \* per core: the cycle access returned
    invCalls,     \* history of the calls TLB::invalidate made
    invReq,       \* history: the invalidation that arrived, if any
    invResp,      \* the cycle TLB::invalidate returned
    fatal         \* "none", or how the run ended: "panic", "assert"

vars == <<rev, numLines, accLat, invLat, pageWalk, pageWalkLat, array, owner, locked,
          pc, req, memReq, respCycle, lineId, WbAddr, skipAccess, accessed, calls, ret,
          invCalls, invReq, invResp, fatal>>

(* --------------------------- Config: its state ------------------------- *)
\* libconfig's CONFIG_TYPE_GROUP, kept where a leaf keeps its value; what
\* config_lookup returns for no setting; and a get without a default
GROUP == -1
Absent == -2
NoDefault == -3
\* the values of leaf settings
Vals == {0, 1}
\* a key or setting path is the sequence of its dot-separated names; the
\* names of settings that begin with '*'
StarNames == {"*p", "*q"}
Paths == {<<"x">>, <<"*p">>, <<"g">>, <<"g", "a">>, <<"g", "*q">>}
\* the keys the simulator asks for
GetKeys == {<<"x">>, <<"*p">>, <<"g">>, <<"g", "a">>, <<"g", "*q">>}
\* no get yet, or writeAndClose since
NoGet == <<>>
\* a config with no setting
EmptyCfg == [p \in {} |-> 0]

VARIABLES
    inCfg,        \* the input config: path -> value of the leaf, or GROUP
    outCfg,       \* the output config, likewise
    readKeys,     \* history: the keys got so far
    cfgState,     \* "open", "closed" (writeAndClose returned) or "panic"
    strictCheck,  \* history: the strictCheck writeAndClose was called with
    warned,       \* history: the settings checkIncluded warned of
    lastGet       \* history: the key and default of the last get, or NoGet

cfgVars == <<inCfg, outCfg, readKeys, cfgState, strictCheck, warned, lastGet>>

\* Config::Config before any input is read: both configs empty
ConfigNew ==
    /\ outCfg = EmptyCfg
    /\ readKeys = {}
    /\ cfgState = "open"
    /\ strictCheck = FALSE
    /\ warned = {}
    /\ lastGet = NoGet

\* no input file at all
ConfigParked == ConfigNew /\ inCfg = EmptyCfg

(* ------------------------- ProcStats: its state ------------------------ *)
\* zinfo->numCores, coreStats->size() (the per-core stats, each a scalar) and
\* zinfo->lineSize, which the constructor takes as the number of process slots
numCores == 2
numStats == 2
maxProcs == 3

CoreIds == 0 .. (numCores - 1)
StatIds == 0 .. (numStats - 1)
ProcSlots == 0 .. (maxProcs - 1)
\* the simulated processes the scheduler knows, and "no process scheduled"
Pids == {0, 1}
NoPid == -1
\* bufSize = StatSize(coreStats)
bufSize == numStats * numCores
BufIdx == 0 .. (bufSize - 1)

VARIABLES
    coreStats,        \* stat -> core -> the core's counter
    procStats,        \* process slot -> stat -> the per-process counter
    buf,              \* ProcStats::buf
    lastBuf,          \* ProcStats::lastBuf
    lastUpdatePhase,  \* ProcStats::lastUpdatePhase
    numPhases,        \* zinfo->numPhases
    sched,            \* scheduler: core -> the pid scheduled on it, or NoPid
    accrued,          \* history: pid -> stat -> increments made while it ran
    lastCall          \* history: what the last call of update did, if the
                      \* last step was one: "skipped", "ran", else "none"

psVars == <<coreStats, procStats, buf, lastBuf, lastUpdatePhase, numPhases, sched,
            accrued, lastCall>>

\* ProcStats::ProcStats: zeroed buffers and counters, lastUpdatePhase = 0; the
\* simulation has run no phase and no process is scheduled
ProcStatsNew ==
    /\ coreStats = [i \in StatIds |-> [c \in CoreIds |-> 0]]
    /\ procStats = [p \in ProcSlots |-> [i \in StatIds |-> 0]]
    /\ buf = [k \in BufIdx |-> 0]
    /\ lastBuf = [k \in BufIdx |-> 0]
    /\ lastUpdatePhase = 0
    /\ numPhases = 0
    /\ sched = [c \in CoreIds |-> NoPid]
    /\ accrued = [p \in Pids |-> [i \in StatIds |-> 0]]
    /\ lastCall = "none"

Slots == 0 .. (numLines - 1)
NoInv == [lineAddr |-> Empty, cycle |-> NoCycle, lat |-> NoCycle, present |-> FALSE]
NoReq == [lineAddr |-> Empty, type |-> "none", cycle |-> NoCycle, flags |-> "none",
          proc |-> NoProc, vPageNum |-> Empty]

\* one entry of a call history
Call(op, rq, addr, line, start, back) ==
    [op |-> op, rq |-> rq, addr |-> addr, line |-> line, start |-> start, ret |-> back]

(* ------------------------------ CacheArray ----------------------------- *)
\* lookup(key, nullptr, false): the slot holding key, or -1; a pure read
lookup(arr, key) ==
    IF \E s \in DOMAIN arr : arr[s] = key
    THEN CHOOSE s \in DOMAIN arr : arr[s] = key /\ \A t \in DOMAIN arr : arr[t] = key => s <= t
    ELSE NotFound

\* the slots preinsert may return for a key: the policy is pluggable
Candidates(arr, key) == DOMAIN arr

\* postinsert(key, req, lineId): commit key into slot lineId
postinsert(arr, key, line) == [arr EXCEPT ![line] = key]

Resident(arr) == {s \in DOMAIN arr : arr[s] # Empty}

(* ---------------------- CC: per-line serialization --------------------- *)
\* startAccess stalls while the line of the request is being serviced
CCFree(lk, addr) == addr \notin lk
\* startAccess takes the line, endAccess releases it
CCAcquire(lk, addr) == lk \cup {addr}
CCRelease(lk, addr) == lk \ {addr}

(* ------------------------------ TLB::TLB ------------------------------- *)
\* ctorPageWalk with the walk enabled from construction
ctorPageWalkSet == TRUE

\* rev 1, the constructor: pageWalk = false
ctorPageWalk == FALSE

Init ==
    /\ rev \in Revs
    /\ numLines \in 1 .. MaxLines
    /\ accLat \in Lats
    /\ invLat = MaxLat
    /\ pageWalk = ctorPageWalk
    /\ pageWalkLat \in (IF rev = 1 THEN {0} ELSE Lats)
    /\ array = [s \in 0 .. (numLines - 1) |-> Empty]
    /\ owner = [s \in 0 .. (numLines - 1) |-> NoProc]
    /\ locked = {}
    /\ pc = [c \in Cores |-> "idle"]
    /\ req = [c \in Cores |-> NoReq]
    /\ memReq = [c \in Cores |-> NoReq]
    /\ respCycle = [c \in Cores |-> NoCycle]
    /\ lineId = [c \in Cores |-> NotFound]
    /\ WbAddr = [c \in Cores |-> Empty]
    /\ skipAccess = [c \in Cores |-> FALSE]
    /\ accessed = [c \in Cores |-> FALSE]
    /\ calls = [c \in Cores |-> <<>>]
    /\ ret = [c \in Cores |-> NoCycle]
    /\ invCalls = <<>>
    /\ invReq = NoInv
    /\ invResp = NoCycle
    /\ fatal = "none"
    /\ ProcStatsNew
    /\ ConfigParked

(* --------------------------- TLB::translate ---------------------------- *)
\* reqFlags, as the constructor sets it
reqFlags == "PTEFETCH"

\* PageKey with the page offset left in the key
PageKeyNoShift(procMask, vAddr) == BitOr(procMask, vAddr)

\* PageKey with the process mask left out of the key
PageKeyNoMask(procMask, vAddr) == ShiftRight(vAddr, pageBits)

\* the array key of a virtual address: procMask | (vAddr >> pageBits)
PageKey(procMask, vAddr) == BitOr(procMask, ShiftRight(vAddr, pageBits))

\* the line of the page-table entry: (pageNum / pteSize) >> lineBits
PteLine(pageNum) == ShiftRight(pageNum \div pteSize, lineBits)

\* translate(vAddr, curCycle) under the mask of process p: build the request
\* and enter access, whose first statement is respCycle = req.cycle
Translate(c, vAddr, curCycle, p) ==
    /\ fatal = "none"
    /\ pc[c] = "idle"
    /\ LET pPageNum == PageKey(ProcMask(p), vAddr)
       IN req' = [req EXCEPT ![c] =
                    [lineAddr |-> pPageNum,
                     type |-> IF rev = 1 THEN "GETS" ELSE "none",
                     cycle |-> curCycle,
                     flags |-> IF rev = 1 THEN reqFlags ELSE "none",
                     proc |-> p,
                     vPageNum |-> ShiftRight(vAddr, pageBits)]]
    /\ respCycle' = [respCycle EXCEPT ![c] = curCycle]
    /\ pc' = [pc EXCEPT ![c] = IF rev = 1 THEN "startAccess" ELSE "lookup"]
    /\ UNCHANGED <<psVars, cfgVars, rev, numLines, accLat, invLat, pageWalk, pageWalkLat, array, owner,
                   locked, memReq, lineId, WbAddr, skipAccess, accessed, calls, ret,
                   invCalls, invReq, invResp, fatal>>

(* ---------------------------- TLB::access ------------------------------ *)
\* the request this access hands to CC.startAccess / CC.endAccess
BracketReq(c) == IF rev = 1 THEN req[c] ELSE memReq[c]
BracketName == IF rev = 1 THEN "req" ELSE "mem_req"

\* AfterStartAccess returning early on skip, before endAccess
AfterStartAccessEarlyReturn(r, skip) ==
    IF skip THEN "done"
    ELSE IF r = 1 THEN "lookup" ELSE "processAccess"

\* where access goes once startAccess has answered skip: rev 1 leaves the
\* branch on skipAccess empty and goes on to the lookup; rev 0 asserts !skip
AfterStartAccess(r, skip) ==
    IF r = 1 THEN "lookup"
    ELSE IF skip THEN "aborted" ELSE "processAccess"

\* cc->startAccess: waits while the line is in flight, then answers skip
StartAccess(c, skip) ==
    /\ fatal = "none"
    /\ pc[c] = "startAccess"
    /\ CCFree(locked, BracketReq(c).lineAddr)
    /\ locked' = CCAcquire(locked, BracketReq(c).lineAddr)
    /\ skipAccess' = [skipAccess EXCEPT ![c] = skip]
    /\ calls' = [calls EXCEPT ![c] =
                   Append(@, Call("startAccess", BracketName, BracketReq(c).lineAddr,
                                  NotFound, NoCycle, NoCycle))]
    /\ pc' = [pc EXCEPT ![c] = AfterStartAccess(rev, skip)]
    /\ fatal' = IF AfterStartAccess(rev, skip) = "aborted" THEN "assert" ELSE fatal
    /\ UNCHANGED <<psVars, cfgVars, rev, numLines, accLat, invLat, pageWalk, pageWalkLat, array, owner,
                   req, memReq, respCycle, lineId, WbAddr, accessed, ret,
                   invCalls, invReq, invResp>>

\* ProbeCycle charging the probe twice
ProbeCycleTwice(cycle, lat) == cycle + lat + lat

\* ProbeCycle overwriting the running cycle: respCycle = accLat
ProbeCycleOverwrite(cycle, lat) == lat

\* the running cycle after the array probe: respCycle += accLat
ProbeCycle(cycle, lat) == cycle + lat

\* AfterLookup taking the miss path whatever the lookup returned
AfterLookupAlwaysMiss(r, line) == "preinsert"

\* where access goes after the lookup
AfterLookup(r, line) ==
    IF line = NotFound THEN "preinsert"
    ELSE IF r = 1 THEN "processAccess" ELSE "done"

\* array->lookup(req.pageNum, nullptr, false); respCycle += accLat
Lookup(c) ==
    /\ fatal = "none"
    /\ pc[c] = "lookup"
    /\ LET line == lookup(array, req[c].lineAddr)
           cyc == ProbeCycle(respCycle[c], accLat)
       IN /\ lineId' = [lineId EXCEPT ![c] = line]
          /\ respCycle' = [respCycle EXCEPT ![c] = cyc]
          /\ calls' = [calls EXCEPT ![c] =
                         Append(@, Call("lookup", "req", req[c].lineAddr, line,
                                        NoCycle, NoCycle))]
          /\ pc' = [pc EXCEPT ![c] = AfterLookup(rev, line)]
          /\ ret' = [ret EXCEPT ![c] = IF AfterLookup(rev, line) = "done" THEN cyc ELSE @]
    /\ UNCHANGED <<psVars, cfgVars, rev, numLines, accLat, invLat, pageWalk, pageWalkLat, array, owner,
                   locked, req, memReq, WbAddr, skipAccess, accessed,
                   invCalls, invReq, invResp, fatal>>

\* WalkStart with the page-walk latency not charged
WalkStartNoCharge(cycle, lat) == cycle

\* the running cycle once the page walk is charged: respCycle += pageWalkLat
WalkStart(cycle, lat) == cycle + lat

\* NestedReq asking for the line exclusively
NestedReqExclusive(c, cycle) ==
    [lineAddr |-> PteLine(req[c].lineAddr), type |-> "GETX", cycle |-> cycle,
     flags |-> reqFlags, proc |-> req[c].proc, vPageNum |-> req[c].vPageNum]

\* the nested request of a page walk, issued at cycle: mem_req = {pLineAddr,
\* GETS, ..., respCycle, ..., flags}, the flags being req.flags in rev 1 and
\* reqFlags in rev 0
NestedReq(c, cycle) ==
    [lineAddr |-> PteLine(req[c].lineAddr), type |-> "GETS", cycle |-> cycle,
     flags |-> IF rev = 1 THEN req[c].flags ELSE reqFlags,
     proc |-> req[c].proc, vPageNum |-> req[c].vPageNum]

\* lineId = array->preinsert(req.pageNum, nullptr, &WbAddr), the policy choosing
\* slot; rev 0 goes on to build mem_req at respCycle + pageWalkLat
Preinsert(c, slot) ==
    /\ fatal = "none"
    /\ pc[c] = "preinsert"
    /\ slot \in Candidates(array, req[c].lineAddr)
    /\ lineId' = [lineId EXCEPT ![c] = slot]
    /\ WbAddr' = [WbAddr EXCEPT ![c] = array[slot]]
    /\ calls' = [calls EXCEPT ![c] =
                   Append(@, Call("preinsert", "req", req[c].lineAddr, slot,
                                  NoCycle, NoCycle))]
    /\ IF rev = 1
       THEN /\ pc' = [pc EXCEPT ![c] = "processEviction"]
            /\ UNCHANGED <<respCycle, memReq>>
       ELSE /\ respCycle' = [respCycle EXCEPT ![c] = WalkStart(@, pageWalkLat)]
            /\ memReq' = [memReq EXCEPT ![c] =
                            NestedReq(c, WalkStart(respCycle[c], pageWalkLat))]
            /\ pc' = [pc EXCEPT ![c] = "postinsert"]
    /\ UNCHANGED <<psVars, cfgVars, rev, numLines, accLat, invLat, pageWalk, pageWalkLat, array, owner,
                   locked, req, skipAccess, accessed, ret, invCalls, invReq, invResp, fatal>>

\* FillLine passing on the slot next to the one preinsert returned
FillLineOther(c) == (lineId[c] + 1) % numLines

\* the slot access passes on to processEviction, processAccess and postinsert
FillLine(c) == lineId[c]

\* AfterEviction walking the page table whatever the flag says
AfterEvictionAlwaysWalk(flag) == "pageWalk"

\* rev 1, where a miss goes once the victim is evicted: if (pageWalk)
AfterEviction(flag) == IF flag THEN "pageWalk" ELSE "postinsert"

\* rev 1: respCycle = cc->processEviction(req, WbAddr, lineId, respCycle), CC
\* taking lat cycles; then the pageWalk flag is read
ProcessEviction(c, lat) ==
    /\ fatal = "none"
    /\ pc[c] = "processEviction"
    /\ respCycle' = [respCycle EXCEPT ![c] = @ + lat]
    /\ calls' = [calls EXCEPT ![c] =
                   Append(@, Call("processEviction", "req", WbAddr[c], FillLine(c),
                                  respCycle[c], respCycle[c] + lat))]
    /\ pc' = [pc EXCEPT ![c] = AfterEviction(pageWalk)]
    /\ UNCHANGED <<psVars, cfgVars, rev, numLines, accLat, invLat, pageWalk, pageWalkLat, array, owner,
                   locked, req, memReq, lineId, WbAddr, skipAccess, accessed, ret,
                   invCalls, invReq, invResp, fatal>>

\* rev 1, pageWalk set: respCycle += pageWalkLat; build mem_req;
\* respCycle = cc->processAccess(mem_req, lineId, respCycle); accessed = true
PageWalk(c, lat) ==
    /\ fatal = "none"
    /\ pc[c] = "pageWalk"
    /\ LET start == WalkStart(respCycle[c], pageWalkLat)
       IN /\ memReq' = [memReq EXCEPT ![c] = NestedReq(c, start)]
          /\ respCycle' = [respCycle EXCEPT ![c] = start + lat]
          /\ calls' = [calls EXCEPT ![c] =
                         Append(@, Call("processAccess", "mem_req",
                                        PteLine(req[c].lineAddr), FillLine(c),
                                        start, start + lat))]
    /\ accessed' = [accessed EXCEPT ![c] = TRUE]
    /\ pc' = [pc EXCEPT ![c] = "postinsert"]
    /\ UNCHANGED <<psVars, cfgVars, rev, numLines, accLat, invLat, pageWalk, pageWalkLat, array, owner,
                   locked, req, lineId, WbAddr, skipAccess, ret, invCalls, invReq, invResp, fatal>>

\* InsertKey committing the address of the nested request
InsertKeyPteLine(c) == PteLine(req[c].lineAddr)

\* the key postinsert commits: req.pageNum
InsertKey(c) == req[c].lineAddr

\* array->postinsert(req.pageNum, &req, lineId)
Postinsert(c) ==
    /\ fatal = "none"
    /\ pc[c] = "postinsert"
    /\ array' = postinsert(array, InsertKey(c), FillLine(c))
    /\ owner' = [owner EXCEPT ![FillLine(c)] = req[c].proc]
    /\ calls' = [calls EXCEPT ![c] =
                   Append(@, Call("postinsert", "req", InsertKey(c), FillLine(c),
                                  NoCycle, NoCycle))]
    /\ pc' = [pc EXCEPT ![c] =
                IF rev = 0 THEN "startAccess"
                ELSE IF accessed[c] THEN "endAccess" ELSE "processAccess"]
    /\ UNCHANGED <<psVars, cfgVars, rev, numLines, accLat, invLat, pageWalk, pageWalkLat, locked,
                   req, memReq, respCycle, lineId, WbAddr, skipAccess, accessed, ret,
                   invCalls, invReq, invResp, fatal>>

\* respCycle = cc->processAccess(req, lineId, respCycle), CC taking lat cycles:
\* on req itself in rev 1 (if (!accessed)), on mem_req in rev 0
ProcessAccess(c, lat) ==
    /\ fatal = "none"
    /\ pc[c] = "processAccess"
    /\ respCycle' = [respCycle EXCEPT ![c] = @ + lat]
    /\ calls' = [calls EXCEPT ![c] =
                   Append(@, Call("processAccess", BracketName, BracketReq(c).lineAddr,
                                  FillLine(c), respCycle[c], respCycle[c] + lat))]
    /\ pc' = [pc EXCEPT ![c] = "endAccess"]
    /\ UNCHANGED <<psVars, cfgVars, rev, numLines, accLat, invLat, pageWalk, pageWalkLat, array, owner,
                   locked, req, memReq, lineId, WbAddr, skipAccess, accessed, ret,
                   invCalls, invReq, invResp, fatal>>

\* cc->endAccess; return respCycle
EndAccess(c) ==
    /\ fatal = "none"
    /\ pc[c] = "endAccess"
    /\ locked' = CCRelease(locked, BracketReq(c).lineAddr)
    /\ calls' = [calls EXCEPT ![c] =
                   Append(@, Call("endAccess", BracketName, BracketReq(c).lineAddr,
                                  NotFound, NoCycle, NoCycle))]
    /\ ret' = [ret EXCEPT ![c] = respCycle[c]]
    /\ pc' = [pc EXCEPT ![c] = "done"]
    /\ UNCHANGED <<psVars, cfgVars, rev, numLines, accLat, invLat, pageWalk, pageWalkLat, array, owner,
                   req, memReq, respCycle, lineId, WbAddr, skipAccess, accessed,
                   invCalls, invReq, invResp, fatal>>

\* the caller has the completion cycle; the core may issue its next access
Return(c) ==
    /\ fatal = "none"
    /\ pc[c] = "done"
    /\ pc' = [pc EXCEPT ![c] = "idle"]
    /\ req' = [req EXCEPT ![c] = NoReq]
    /\ memReq' = [memReq EXCEPT ![c] = NoReq]
    /\ respCycle' = [respCycle EXCEPT ![c] = NoCycle]
    /\ lineId' = [lineId EXCEPT ![c] = NotFound]
    /\ WbAddr' = [WbAddr EXCEPT ![c] = Empty]
    /\ skipAccess' = [skipAccess EXCEPT ![c] = FALSE]
    /\ accessed' = [accessed EXCEPT ![c] = FALSE]
    /\ calls' = [calls EXCEPT ![c] = <<>>]
    /\ ret' = [ret EXCEPT ![c] = NoCycle]
    /\ UNCHANGED <<psVars, cfgVars, rev, numLines, accLat, invLat, pageWalk, pageWalkLat, array, owner,
                   locked, invCalls, invReq, invResp, fatal>>

(* ------------------------- page-walk configuration --------------------- *)
\* rev 1: the flag the constructor clears is set, with its latency
SetPageWalk(lat) ==
    /\ fatal = "none"
    /\ rev = 1
    /\ ~pageWalk
    /\ pageWalk' = TRUE
    /\ pageWalkLat' = lat
    /\ UNCHANGED <<psVars, cfgVars, rev, numLines, accLat, invLat, array, owner, locked,
                   pc, req, memReq, respCycle, lineId, WbAddr, skipAccess, accessed,
                   calls, ret, invCalls, invReq, invResp, fatal>>

(* --------------------------- TLB::invalidate --------------------------- *)
\* invalidate without its panic: the statements after it run
invalidateNoPanic(addr, cycle, lat) ==
    LET line == lookup(array, addr)
        start == cycle + invLat
    IN IF line = NotFound
       THEN [fatal |-> "assert",
             calls |-> <<Call("lookup", "inv", addr, line, NoCycle, NoCycle)>>,
             resp |-> NoCycle]
       ELSE [fatal |-> "none",
             calls |-> <<Call("lookup", "inv", addr, line, NoCycle, NoCycle),
                         Call("processInv", "inv", addr, line, start, start + lat)>>,
             resp |-> start + lat]

\* what invalidate(req) does for req.lineAddr = addr, req.cycle = cycle, CC
\* taking lat cycles: [fatal, calls, resp]. The panic is its first statement.
invalidate(addr, cycle, lat) ==
    [fatal |-> "panic", calls |-> <<>>, resp |-> NoCycle]

Invalidate(addr, cycle, lat) ==
    /\ fatal = "none"
    /\ LET out == invalidate(addr, cycle, lat)
       IN /\ fatal' = out.fatal
          /\ invCalls' = out.calls
          /\ invResp' = out.resp
    /\ invReq' = [lineAddr |-> addr, cycle |-> cycle, lat |-> lat,
                  present |-> lookup(array, addr) # NotFound]
    /\ UNCHANGED <<psVars, cfgVars, rev, numLines, accLat, invLat, pageWalk, pageWalkLat, array, owner,
                   locked, pc, req, memReq, respCycle, lineId, WbAddr, skipAccess,
                   accessed, calls, ret>>

Keys == {BitOr(ProcMask(p), ShiftRight(v, pageBits)) : p \in Procs, v \in VAddrs}

(* ---------------------------- specification ---------------------------- *)
AllIdle == \A c \in Cores : pc[c] = "idle"
FirstCore == CHOOSE c \in Cores : \A d \in Cores : c <= d

\* one core: each access runs to completion before the next is issued, and
\* a parent's invalidation arrives between accesses
Next ==
    \/ \E v \in VAddrs, cy \in Cycles, p \in Procs : Translate(FirstCore, v, cy, p)
    \/ \E c \in Cores, skip \in BOOLEAN : StartAccess(c, skip)
    \/ \E c \in Cores : Lookup(c)
    \/ \E c \in Cores : \E slot \in Slots : Preinsert(c, slot)
    \/ \E c \in Cores, lat \in CCLats : ProcessEviction(c, lat)
    \/ \E c \in Cores, lat \in CCLats : PageWalk(c, lat)
    \/ \E c \in Cores : Postinsert(c)
    \/ \E c \in Cores, lat \in CCLats : ProcessAccess(c, lat)
    \/ \E c \in Cores : EndAccess(c)
    \/ \E c \in Cores : Return(c)
    \/ \E lat \in Lats : SetPageWalk(lat)
    \/ \E a \in Keys, cy \in Cycles, lat \in CCLats : AllIdle /\ Invalidate(a, cy, lat)

Spec == Init /\ [][Next]_vars

\* accesses of different cores, by one process, interleave at every call;
\* CC adds no latency
FirstProc == CHOOSE p \in Procs : \A q \in Procs : p <= q
NextConc ==
    \/ \E c \in Cores, v \in VAddrs : Translate(c, v, 0, FirstProc)
    \/ \E c \in Cores, skip \in BOOLEAN : StartAccess(c, skip)
    \/ \E c \in Cores : Lookup(c)
    \/ \E c \in Cores : \E slot \in Slots : Preinsert(c, slot)
    \/ \E c \in Cores : ProcessEviction(c, 0)
    \/ \E c \in Cores : PageWalk(c, 0)
    \/ \E c \in Cores : Postinsert(c)
    \/ \E c \in Cores : ProcessAccess(c, 0)
    \/ \E c \in Cores : EndAccess(c)
    \/ \E c \in Cores : Return(c)
    \/ \E lat \in Lats : SetPageWalk(lat)

SpecConc == Init /\ [][NextConc]_vars

(* ------------------------ reading a call history ----------------------- *)
IdxOf(h, name) == {i \in DOMAIN h : h[i].op = name}
CountOp(h, name) == Cardinality(IdxOf(h, name))
Hit(c) == \E i \in IdxOf(calls[c], "lookup") : calls[c][i].line # NotFound
Miss(c) == \E i \in IdxOf(calls[c], "lookup") : calls[c][i].line = NotFound
LineState == {"lookup", "preinsert", "postinsert"}
AccessLogic == {"lookup", "preinsert", "processEviction", "processAccess", "postinsert"}

\* the cycles CC took over the calls of h named name (at most one per access)
CCLatOf(h, name, rq) ==
    LET S == {i \in IdxOf(h, name) : h[i].rq = rq}
    IN IF S = {} THEN 0
       ELSE LET i == CHOOSE i \in S : TRUE IN h[i].ret - h[i].start

\* every prefix of h has as many starts as ends, or one more, and each end
\* closes the start before it, on the same request
Bracketed(h) ==
    \A i \in DOMAIN h :
        LET st == Cardinality({j \in 1 .. i : h[j].op = "startAccess"})
            en == Cardinality({j \in 1 .. i : h[j].op = "endAccess"})
        IN /\ en <= st
           /\ st <= en + 1
           /\ h[i].op = "endAccess" =>
                \E j \in 1 .. (i - 1) :
                    /\ h[j].op = "startAccess"
                    /\ h[j].rq = h[i].rq
                    /\ h[j].addr = h[i].addr
                    /\ \A k \in (j + 1) .. (i - 1) : h[k].op \notin {"startAccess", "endAccess"}

(* -------------------------------- C1 ----------------------------------- *)
\* C1: an access makes as many endAccess calls as startAccess calls on every
\* path by which it returns (hit, miss with and without page walk, skip); each
\* endAccess closes the one startAccess before it, on the same request, and
\* once every access has returned CC holds no line.
C1_StartEndMatched ==
    /\ \A c \in Cores :
          /\ Bracketed(calls[c])
          /\ pc[c] = "done" =>
                CountOp(calls[c], "startAccess") = CountOp(calls[c], "endAccess")
    /\ (\A c \in Cores : pc[c] \in {"idle", "done"}) => locked = {}

\* C1 witness: an access that CC told to skip has returned, with one
\* startAccess and one endAccess
C1_Witness ==
    \E c \in Cores :
        /\ pc[c] = "done"
        /\ skipAccess[c]
        /\ CountOp(calls[c], "startAccess") = 1
        /\ CountOp(calls[c], "endAccess") = 1

(* -------------------------------- C2 ----------------------------------- *)
\* C2: when startAccess reports skip, the access does nothing but endAccess
\* after it: no lookup, preinsert, processEviction, processAccess, postinsert.
C2_SkipGoesToComplete ==
    \A c \in Cores :
        skipAccess[c] =>
            \A i \in IdxOf(calls[c], "startAccess") :
                \A j \in DOMAIN calls[c] :
                    j > i => calls[c][j].op \notin AccessLogic

(* -------------------------------- C3 ----------------------------------- *)
\* C3: every lookup, preinsert and postinsert of an access comes after its
\* startAccess and before its endAccess.
C3_StartBeforeLineState ==
    \A c \in Cores :
        \A j \in DOMAIN calls[c] :
            calls[c][j].op \in LineState =>
                /\ \E i \in IdxOf(calls[c], "startAccess") : i < j
                /\ \A k \in IdxOf(calls[c], "endAccess") : j < k

(* -------------------------------- C4 ----------------------------------- *)
\* C4: with CC never returning a cycle below the start cycle it was given,
\* the cycle an access returns is at least its issuing cycle plus accLat.
C4_CompletionAtLeastAccLat ==
    \A c \in Cores :
        pc[c] = "done" => ret[c] >= req[c].cycle + accLat

\* C4 witness: a miss has returned, CC having added latency of its own
C4_Witness ==
    \E c \in Cores :
        /\ pc[c] = "done"
        /\ Miss(c)
        /\ accLat > 0
        /\ req[c].cycle > 0
        /\ ret[c] > req[c].cycle + accLat

(* -------------------------------- C5 ----------------------------------- *)
\* C5: an access whose lookup hits calls neither processEviction nor preinsert
\* nor postinsert; one whose lookup misses calls preinsert once and then
\* postinsert once, on the slot that preinsert returned.
C5_HitMissFill ==
    \A c \in Cores :
        LET h == calls[c]
        IN /\ Hit(c) =>
                /\ CountOp(h, "processEviction") = 0
                /\ CountOp(h, "preinsert") = 0
                /\ CountOp(h, "postinsert") = 0
           /\ CountOp(h, "preinsert") <= 1
           /\ CountOp(h, "postinsert") <= 1
           /\ \A j \in IdxOf(h, "postinsert") :
                \E i \in IdxOf(h, "preinsert") : i < j /\ h[i].line = h[j].line
           /\ (Miss(c) /\ pc[c] = "done") =>
                /\ CountOp(h, "preinsert") = 1
                /\ CountOp(h, "postinsert") = 1

\* C5 witness: a hit has returned from an array that holds a second key too
C5_Witness ==
    \E c \in Cores :
        /\ pc[c] = "done"
        /\ Hit(c)
        /\ \E s \in Slots : array[s] # Empty /\ array[s] # req[c].lineAddr

(* -------------------------------- C6 ----------------------------------- *)
\* the slot the preinsert of c's access returned
PreinsertLine(c) ==
    LET i == CHOOSE i \in IdxOf(calls[c], "preinsert") : TRUE IN calls[c][i].line

\* C6: the array never holds more resident keys than the capacity it was
\* built with; the slot handed to processEviction and to postinsert is the one
\* preinsert returned, and the postinsert step writes the accessed key into
\* that slot and changes no other.
C6_CapacityAndVictimSlot ==
    /\ [](/\ DOMAIN array = 0 .. (numLines - 1)
          /\ Cardinality(Resident(array)) <= numLines
          /\ \A c \in Cores : \A j \in DOMAIN calls[c] :
                calls[c][j].op \in {"processEviction", "postinsert"} =>
                    \E i \in IdxOf(calls[c], "preinsert") :
                        i < j /\ calls[c][i].line = calls[c][j].line)
    /\ [][\A c \in Cores :
            (pc[c] = "postinsert" /\ pc'[c] # "postinsert") =>
                /\ IdxOf(calls[c], "preinsert") # {}
                /\ PreinsertLine(c) \in DOMAIN array
                /\ array' = [array EXCEPT ![PreinsertLine(c)] = req[c].lineAddr]]_vars

\* C6 witness: a miss on a full array has replaced another key
C6_Witness ==
    \E c \in Cores :
        /\ pc[c] = "done"
        /\ Miss(c)
        /\ WbAddr[c] # Empty
        /\ WbAddr[c] # req[c].lineAddr
        /\ Resident(array) = DOMAIN array
        /\ WbAddr[c] \notin {array[s] : s \in DOMAIN array}

(* -------------------------------- C7 ----------------------------------- *)
\* C7: two processes with different masks get different keys for addresses
\* with the same page number, so the key of an access never equals the key of
\* an entry another process's access inserted.
C7_ProcessesNeverAlias ==
    /\ \A p, q \in Procs : \A v, w \in VAddrs :
          (ProcMask(p) # ProcMask(q) /\ ShiftRight(v, pageBits) = ShiftRight(w, pageBits)) =>
              PageKey(ProcMask(p), v) # PageKey(ProcMask(q), w)
    /\ \A c \in Cores : \A s \in DOMAIN array :
          (pc[c] # "idle" /\ array[s] = req[c].lineAddr) => owner[s] = req[c].proc

\* C7 witness: an access misses while the array holds the same page number
\* inserted by the other process
C7_Witness ==
    \E c \in Cores : \E s \in DOMAIN array :
        /\ Miss(c)
        /\ CountOp(calls[c], "postinsert") = 0
        /\ owner[s] # NoProc
        /\ owner[s] # req[c].proc
        /\ array[s] - ProcMask(owner[s]) = req[c].vPageNum

(* -------------------------------- C8 ----------------------------------- *)
\* C8 as claimed: invalidate of a present key succeeds and returns the cycle
\* processInv yields from issuing cycle + invLat; of an absent key, is fatal.
C8_InvalidatePresentSucceeds ==
    invReq # NoInv =>
        IF invReq.present
        THEN /\ fatal = "none"
             /\ invResp = invReq.cycle + invLat + invReq.lat
        ELSE fatal # "none"

\* C8 as amended: invalidate is a fatal error for a present key as for an
\* absent one, and returns no cycle.
C8_InvalidateAlwaysFatal ==
    invReq # NoInv => (fatal = "panic" /\ invResp = NoCycle)

\* C8 witness: an invalidation arrived for a key the array holds
C8_Witness ==
    /\ invReq # NoInv
    /\ invReq.present
    /\ \E s \in DOMAIN array : array[s] = invReq.lineAddr

(* -------------------------------- C9 ----------------------------------- *)
\* C9: a step that invokes invalidate ends the run before any lookup or
\* processInv: it leaves the array, the slots' history and CC's lines as they
\* were, makes no call and returns no cycle.
C9_InvalidateTouchesNothing ==
    [][(invReq' # invReq) =>
          /\ fatal' # "none"
          /\ array' = array
          /\ owner' = owner
          /\ locked' = locked
          /\ invCalls' = <<>>
          /\ invResp' = NoCycle]_vars

\* C9 witness: an invalidation arrived for a key the array does not hold,
\* while it holds another
C9_Witness ==
    /\ invReq # NoInv
    /\ ~invReq.present
    /\ Resident(array) # {}
    /\ fatal = "panic"

(* -------------------------------- C10 ---------------------------------- *)
NestedCalls(h) == {i \in IdxOf(h, "processAccess") : h[i].rq = "mem_req"}

\* C10 as claimed: a miss with page walk completes at issuing cycle + accLat
\* + pageWalkLat + the latency CC reports for the nested fetch.
C10_WalkCompletion ==
    \A c \in Cores :
        (pc[c] = "done" /\ Miss(c) /\ NestedCalls(calls[c]) # {}) =>
            ret[c] = req[c].cycle + accLat + pageWalkLat
                     + CCLatOf(calls[c], "processAccess", "mem_req")

\* C10 as amended: a miss with page walk makes one nested fetch, of the line
\* of the page-table entry, and completes at issuing cycle + accLat + the
\* latency CC reports for the eviction (rev 1; rev 0 makes no such call)
\* + pageWalkLat + the latency CC reports for the nested fetch.
C10_WalkCompletionWithEviction ==
    \A c \in Cores :
        (pc[c] = "done" /\ Miss(c) /\ NestedCalls(calls[c]) # {}) =>
            /\ Cardinality(NestedCalls(calls[c])) = 1
            /\ \A i \in NestedCalls(calls[c]) :
                  calls[c][i].addr = PteLine(req[c].lineAddr)
            /\ ret[c] = req[c].cycle + accLat
                        + CCLatOf(calls[c], "processEviction", "req")
                        + pageWalkLat
                        + CCLatOf(calls[c], "processAccess", "mem_req")

\* C10 witness: a miss with page walk has returned, CC having taken cycles
\* over the eviction
C10_Witness ==
    \E c \in Cores :
        /\ pc[c] = "done"
        /\ Miss(c)
        /\ NestedCalls(calls[c]) # {}
        /\ CCLatOf(calls[c], "processEviction", "req") > 0

(* -------------------------------- C11 ---------------------------------- *)
\* a slot holds the key of the page of c's request, put there by an earlier
\* miss of the same process on some address of that page and not evicted since
SamePageResident(c) ==
    \E s \in DOMAIN array, v \in VAddrs :
        /\ ShiftRight(v, pageBits) = req[c].vPageNum
        /\ owner[s] = req[c].proc
        /\ array[s] = PageKey(ProcMask(req[c].proc), v)

Committed(c) == CountOp(calls[c], "postinsert") > 0

\* C12: after a miss on key K that chose a slot holding another key V, V is
\* no longer resident (its lookup misses) and K is resident in that slot (its
\* lookup hits there); with one slot, access A then access B leaves B alone.
C12_VictimGoneKeyResident ==
    \A c \in Cores :
        (Committed(c) /\ WbAddr[c] \notin {Empty, req[c].lineAddr}) =>
            /\ lookup(array, WbAddr[c]) = NotFound
            /\ lookup(array, req[c].lineAddr) = PreinsertLine(c)
            /\ numLines = 1 => {array[s] : s \in Resident(array)} = {req[c].lineAddr}

\* C12 witness: with one slot, the miss on B has returned having evicted A
C12_Witness ==
    \E c \in Cores :
        /\ numLines = 1
        /\ pc[c] = "done"
        /\ Committed(c)
        /\ WbAddr[c] \notin {Empty, req[c].lineAddr}

(* -------------------------------- C13 ---------------------------------- *)
\* c is between its startAccess and its endAccess
InBracket(c) == CountOp(calls[c], "startAccess") > CountOp(calls[c], "endAccess")

\* c has made its lookup and has not yet ended its access: it is in the
\* lookup / fill logic of its line
InLineLogic(c) ==
    /\ pc[c] \notin {"idle", "done", "aborted"}
    /\ CountOp(calls[c], "lookup") > 0

\* C13: under any interleaving, at most one access per line is between its
\* startAccess and endAccess, and two accesses to one line never run their
\* lookup / fill logic at the same time.
C13_OneAccessPerLine ==
    \A c, d \in Cores :
        c # d =>
            /\ (InBracket(c) /\ InBracket(d)) =>
                  BracketReq(c).lineAddr # BracketReq(d).lineAddr
            /\ (InLineLogic(c) /\ InLineLogic(d)) =>
                  req[c].lineAddr # req[d].lineAddr

(* -------------------------------- C14 ---------------------------------- *)
\* c has chosen its victim slot and not yet committed its key into it
BetweenPreAndPost(c) ==
    /\ CountOp(calls[c], "preinsert") > 0
    /\ CountOp(calls[c], "postinsert") = 0

\* C14: accesses from different cores to different keys do not interfere:
\* between the preinsert and the postinsert of an access, the slot it chose
\* still holds the victim it read there, no access to another key having
\* committed into it (so no completed insertion is lost to a second miss
\* that chose the same victim slot).
C14_SlotUntouchedByOtherKeys ==
    \A c \in Cores :
        BetweenPreAndPost(c) =>
            array[PreinsertLine(c)] \in {WbAddr[c], req[c].lineAddr}

(* -------------------------------- C15 ---------------------------------- *)
\* the slot the lookup of c found
LookupLine(c) ==
    LET i == CHOOSE i \in IdxOf(calls[c], "lookup") : TRUE
    IN calls[c][i].line

\* C15: an access that hit has called CC.processAccess exactly once by the
\* time it returns, on the original request, with the slot its lookup found
\* and the start cycle issuing cycle + accLat, and it returns the cycle that
\* call returned.
C15_HitProcessAccessOnce ==
    \A c \in Cores :
        (pc[c] = "done" /\ Hit(c)) =>
            /\ CountOp(calls[c], "processAccess") = 1
            /\ \A i \in IdxOf(calls[c], "processAccess") :
                  /\ calls[c][i].rq = "req"
                  /\ calls[c][i].addr = req[c].lineAddr
                  /\ calls[c][i].line = LookupLine(c)
                  /\ calls[c][i].start = req[c].cycle + accLat
                  /\ ret[c] = calls[c][i].ret

(* -------------------------------- C16 ---------------------------------- *)
\* the calls of h by which CC is asked for a latency
TimedCalls(h) == IdxOf(h, "processAccess") \cup IdxOf(h, "processEviction")

\* the first of them
FirstTimedCall(h) == CHOOSE i \in TimedCalls(h) : \A j \in TimedCalls(h) : i <= j

AllBefore(h, a, b) == \A i \in IdxOf(h, a), j \in IdxOf(h, b) : i < j

\* C17: on a miss the calls come in the order preinsert, processEviction,
\* nested fetch (if the page is walked), postinsert, endAccess: no postinsert
\* without a processEviction before it, exactly one processEviction by the
\* time the miss returns, made on the victim key the preinsert wrote and the
\* slot it returned, and the cycle it returns is the one the next timed call
\* starts from.
C17_MissOrder ==
    \A c \in Cores :
        Miss(c) =>
            LET h == calls[c]
            IN /\ CountOp(h, "processEviction") <= 1
               /\ AllBefore(h, "preinsert", "processEviction")
               /\ AllBefore(h, "processEviction", "postinsert")
               /\ AllBefore(h, "postinsert", "endAccess")
               /\ \A n \in NestedCalls(h) :
                     /\ \A i \in IdxOf(h, "processEviction") : i < n
                     /\ \A k \in IdxOf(h, "postinsert") : n < k
               /\ IdxOf(h, "postinsert") # {} => CountOp(h, "processEviction") = 1
               /\ \A i \in IdxOf(h, "processEviction") :
                     /\ h[i].rq = "req"
                     /\ h[i].addr = WbAddr[c]
                     /\ h[i].line = PreinsertLine(c)
                     /\ \A j \in IdxOf(h, "processAccess") :
                           h[j].start = h[i].ret
                             + (IF h[j].rq = "mem_req" THEN pageWalkLat ELSE 0)

(* -------------------------------- C18 ---------------------------------- *)
\* the processAccess calls of h made on the request the access was given
DirectCalls(h) == {i \in IdxOf(h, "processAccess") : h[i].rq = "req"}

\* C18: in the revision with the pageWalk flag (rev 1) the fill of a miss
\* follows the flag as read after the eviction: set, pageWalkLat is added and
\* processAccess is called on the nested request with this level's slot;
\* clear, nothing is added and processAccess is called on req itself. Every
\* access, hit or miss, has called processAccess exactly once when it returns.
C18_FillGatedByPageWalk ==
    /\ [][\A c \in Cores :
            (rev = 1 /\ pc[c] = "processEviction" /\ pc'[c] # "processEviction") =>
                pc'[c] = IF pageWalk THEN "pageWalk" ELSE "postinsert"]_vars
    /\ [](\A c \in Cores :
            LET h == calls[c]
                ev == CCLatOf(h, "processEviction", "req")
            IN rev = 1 =>
                /\ \A n \in NestedCalls(h) :
                      /\ pageWalk
                      /\ h[n].addr = PteLine(req[c].lineAddr)
                      /\ h[n].line = PreinsertLine(c)
                      /\ h[n].start = req[c].cycle + accLat + ev + pageWalkLat
                      /\ DirectCalls(h) = {}
                /\ \A d \in DirectCalls(h) :
                      /\ h[d].addr = req[c].lineAddr
                      /\ h[d].start = req[c].cycle + accLat + ev
                      /\ NestedCalls(h) = {}
                /\ CountOp(h, "processAccess") <= 1
                /\ pc[c] = "done" => CountOp(h, "processAccess") = 1)

\* C18 witness: a miss has returned that was filled by a walk of pageWalkLat
\* cycles
C18_Witness ==
    \E c \in Cores :
        /\ rev = 1
        /\ pc[c] = "done"
        /\ pageWalkLat > 0
        /\ NestedCalls(calls[c]) # {}

\* a miss has returned that was filled with the flag clear, by a call on req
MissFilledWithoutWalk ==
    \E c \in Cores :
        /\ rev = 1
        /\ pc[c] = "done"
        /\ Miss(c)
        /\ ~pageWalk
        /\ DirectCalls(calls[c]) # {}

(* -------------------------------- C19 ---------------------------------- *)
\* the keys process p can be the target of: the page keys of its addresses
TargetKeys(p) == {PageKey(ProcMask(p), v) : v \in VAddrs}

\* C19: every postinsert of a miss commits the page key of the request, the
\* process-masked page number, into the slot its preinsert chose, and never
\* the line address of the page-table entry; every resident key is the page
\* key of an address of the process whose access put it there.
C19_CommitsPageKey ==
    /\ \A c \in Cores :
          \A k \in IdxOf(calls[c], "postinsert") :
              /\ calls[c][k].addr = req[c].lineAddr
              /\ calls[c][k].addr = BitOr(ProcMask(req[c].proc), req[c].vPageNum)
              /\ calls[c][k].line = PreinsertLine(c)
    /\ \A s \in Resident(array) :
          /\ owner[s] # NoProc
          /\ array[s] \in TargetKeys(owner[s])

\* C19 witness: a miss has committed a page key that differs from the line
\* address of its page-table entry
C19_Witness ==
    \E c \in Cores :
        /\ pc[c] = "done"
        /\ Miss(c)
        /\ NestedCalls(calls[c]) # {}
        /\ PteLine(req[c].lineAddr) # req[c].lineAddr
        /\ array[PreinsertLine(c)] = req[c].lineAddr

(* -------------------------------- C20 ---------------------------------- *)
\* the calls by which a request is handed to CC
CCOps == {"startAccess", "processEviction", "processAccess", "endAccess"}

\* the request a call of core c was made on
ReqOf(c, call) == IF call.rq = "mem_req" THEN memReq[c] ELSE req[c]

\* C20: every request handed to CC, the one translate built and the nested
\* one of the page walk, is a GETS carrying the PTEFETCH flag, and the nested
\* one asks for the line of the page-table entry.
C20_OnlyReadSharedPteFetch ==
    \A c \in Cores :
        \A i \in DOMAIN calls[c] :
            calls[c][i].op \in CCOps =>
                /\ ReqOf(c, calls[c][i]).type = "GETS"
                /\ ReqOf(c, calls[c][i]).flags = "PTEFETCH"
                /\ ReqOf(c, calls[c][i]).lineAddr = calls[c][i].addr
                      \/ calls[c][i].op = "processEviction"

\* C20 witness: an access has returned that handed CC both the request of
\* translate and a nested request
C20_Witness ==
    \E c \in Cores :
        /\ pc[c] = "done"
        /\ \E i \in DOMAIN calls[c] : calls[c][i].op \in CCOps /\ calls[c][i].rq = "req"
        /\ \E i \in DOMAIN calls[c] : calls[c][i].op \in CCOps /\ calls[c][i].rq = "mem_req"

C22_NewTLBDoesNotWalk ==
    /\ rev = 1 => (~pageWalk /\ pageWalkLat = 0)
    /\ [](\A c \in Cores :
            (rev = 1 /\ ~pageWalk) =>
                /\ pageWalkLat = 0
                /\ NestedCalls(calls[c]) = {}
                /\ (pc[c] = "done" /\ Miss(c)) =>
                      \E e \in IdxOf(calls[c], "processEviction"),
                         d \in DirectCalls(calls[c]) :
                          /\ calls[c][e].start = req[c].cycle + accLat
                          /\ calls[c][d].start = calls[c][e].ret
                          /\ ret[c] = calls[c][d].ret)

\* C22 witness: with the flag still clear, a miss has returned, CC having
\* taken cycles over the eviction and over the access
C22_Witness ==
    \E c \in Cores :
        /\ rev = 1
        /\ ~pageWalk
        /\ pc[c] = "done"
        /\ Miss(c)
        /\ CCLatOf(calls[c], "processEviction", "req") > 0
        /\ CCLatOf(calls[c], "processAccess", "req") > 0

(* ======================= ProcStats (stats_filter.cpp) ================== *)
RECURSIVE SumOver(_, _)
\* the sum of f over the set S
SumOver(S, f) ==
    IF S = {} THEN 0
    ELSE LET x == CHOOSE x \in S : TRUE
         IN f[x] + SumOver(S \ {x}, f)

\* UpdateRuns doing the work at every call
UpdateRunsAlways(last, phases) == TRUE

\* update returns at once if (lastUpdatePhase == zinfo->numPhases)
UpdateRuns(last, phases) == last # phases

\* where the counter of core c for stat i lies in the buffers: DumpWalk and
\* the loops of update go stat by stat and, within a stat, core by core
StatStart(i, c) == i * numCores + c

\* DumpWalk(coreStats, buf): the core counters, laid out in the buffer
DumpWalk(cs) == [k \in BufIdx |-> cs[k \div numCores][k % numCores]]

\* Differences taking the counters themselves for their growth
DifferencesWhole(b, lb) == b

\* lastBuf[i] = buf[i] - lastBuf[i]: the growth of each counter since the
\* last update that ran
Differences(b, lb) == [k \in BufIdx |-> b[k] - lb[k]]

\* procArray[p]->getGroupIdx(): each process is its own group here
getGroupIdx(p) == p

\* ScheduledSlot giving every core's growth to the last slot
ScheduledSlotLast(pid) == maxProcs - 1

\* the process slot a core's growth goes to: the group of the scheduled
\* process, or the last slot if none is scheduled
ScheduledSlot(pid) == IF pid = NoPid THEN maxProcs - 1 ELSE getGroupIdx(pid)

\* the IncWalk calls of update: core c's growth for stat i is added to stat i
\* of the slot of the process now on c
IncWalk(ps, d, sc) ==
    [p \in ProcSlots |->
        [i \in StatIds |->
            ps[p][i] + SumOver({c \in CoreIds : ScheduledSlot(sc[c]) = p},
                               [c \in CoreIds |-> d[StatStart(i, c)]])]]

\* ProcStats::update; std::swap leaves the differences in buf and the
\* counters just dumped in lastBuf
update ==
    IF UpdateRuns(lastUpdatePhase, numPhases)
    THEN LET dumped == DumpWalk(coreStats)
             diff == Differences(dumped, lastBuf)
         IN /\ buf' = diff
            /\ lastBuf' = dumped
            /\ procStats' = IncWalk(procStats, diff, sched)
            /\ lastUpdatePhase' = numPhases
            /\ lastCall' = "ran"
    ELSE /\ UNCHANGED <<buf, lastBuf, procStats, lastUpdatePhase>>
         /\ lastCall' = "skipped"

\* all the increments made so far
TotalIncs == SumOver(BufIdx, DumpWalk(coreStats))

\* the process running on core c bumps the core's counter for stat i
IncCore(i, c) ==
    /\ sched[c] # NoPid
    /\ TotalIncs < MaxIncs
    /\ coreStats' = [coreStats EXCEPT ![i][c] = @ + 1]
    /\ accrued' = [accrued EXCEPT ![sched[c]][i] = @ + 1]
    /\ lastCall' = "none"
    /\ UNCHANGED <<procStats, buf, lastBuf, lastUpdatePhase, numPhases, sched, vars, cfgVars>>

\* the scheduler puts process p, which runs nowhere, on the free core c
Schedule(c, p) ==
    /\ sched[c] = NoPid
    /\ \A d \in CoreIds : sched[d] # p
    /\ sched' = [sched EXCEPT ![c] = p]
    /\ lastCall' = "none"
    /\ UNCHANGED <<coreStats, procStats, buf, lastBuf, lastUpdatePhase, numPhases,
                   accrued, vars, cfgVars>>

\* the process on core c leaves it: ProcStats::notifyDeschedule, which is
\* update(), is called first
Deschedule(c) ==
    /\ sched[c] # NoPid
    /\ update
    /\ sched' = [sched EXCEPT ![c] = NoPid]
    /\ UNCHANGED <<coreStats, numPhases, accrued, vars, cfgVars>>

\* a per-process counter is read: ProcessCounter::get calls ps->update()
ReadCounter ==
    /\ update
    /\ UNCHANGED <<coreStats, numPhases, sched, accrued, vars, cfgVars>>

\* the simulation ends a phase
EndPhase ==
    /\ numPhases < MaxPhases
    /\ numPhases' = numPhases + 1
    /\ lastCall' = "none"
    /\ UNCHANGED <<coreStats, procStats, buf, lastBuf, lastUpdatePhase, sched,
                   accrued, vars, cfgVars>>

\* the TLB stays as constructed, in one configuration
InitProcStats == Init /\ rev = 1 /\ numLines = 1 /\ accLat = 1

NextProcStats ==
    \/ \E i \in StatIds, c \in CoreIds : IncCore(i, c)
    \/ \E c \in CoreIds, p \in Pids : Schedule(c, p)
    \/ \E c \in CoreIds : Deschedule(c)
    \/ ReadCounter
    \/ EndPhase

SpecProcStats == InitProcStats /\ [][NextProcStats]_psVars

(* -------------------------------- C23 ---------------------------------- *)
\* stat i summed over the process slots, and over the cores
ProcTotal(i) == SumOver(ProcSlots, [p \in ProcSlots |-> procStats[p][i]])
CoreTotal(i) == SumOver(CoreIds, [c \in CoreIds |-> coreStats[i][c]])

\* the slot the claim names for core c: the group index of the process
\* scheduled on it, or the last slot
ClaimedSlot(c) == IF sched[c] = NoPid THEN maxProcs - 1 ELSE getGroupIdx(sched[c])

\* what core c's counter for stat i has grown by since the last update that ran
Growth(i, c) == coreStats[i][c] - lastBuf[StatStart(i, c)]

\* C23: right after every update that runs, each stat summed over the
\* process slots equals that stat summed over the cores; the update adds each
\* core's growth since the previous update to one slot only, that of the
\* process scheduled on the core at the time (the last slot if none).
C23_Conservation ==
    /\ [](lastCall = "ran" => \A i \in StatIds : ProcTotal(i) = CoreTotal(i))
    /\ [][lastCall' = "ran" =>
            \A p \in ProcSlots, i \in StatIds :
                procStats'[p][i] =
                    procStats[p][i]
                    + SumOver({c \in CoreIds : ClaimedSlot(c) = p},
                              [c \in CoreIds |-> Growth(i, c)])]_psVars

\* C23 witness: an update has just run that found growth on both cores, one
\* with a process scheduled and one with none
C23_Witness ==
    /\ lastCall = "ran"
    /\ \E i \in StatIds : procStats[maxProcs - 1][i] > 0
    /\ \E p \in Pids, i \in StatIds : procStats[getGroupIdx(p)][i] > 0

(* -------------------------------- C24 ---------------------------------- *)
\* C24: a call of update made while lastUpdatePhase equals the phase count
\* changes no per-process counter and no buffer, whatever the core counters
\* hold; a call made in a later phase runs, and accounts all the growth since
\* the last update that ran; lastUpdatePhase never exceeds the phase count.
C24_UpdateOncePerPhase ==
    /\ [](lastUpdatePhase <= numPhases)
    /\ [][lastCall' # "none" =>
            IF lastUpdatePhase = numPhases
            THEN /\ lastCall' = "skipped"
                 /\ UNCHANGED <<procStats, buf, lastBuf, lastUpdatePhase>>
            ELSE /\ lastCall' = "ran"
                 /\ lastUpdatePhase' = numPhases
                 /\ lastBuf' = DumpWalk(coreStats)
                 /\ \A i \in StatIds :
                       ProcTotal(i)' = ProcTotal(i)
                                       + SumOver(CoreIds, [c \in CoreIds |-> Growth(i, c)])]_psVars

\* C24 witness: update has just been called again in the phase of the last
\* update that ran, the core counters having grown since
C24_Witness ==
    /\ lastCall = "skipped"
    /\ lastUpdatePhase > 0
    /\ \E i \in StatIds, c \in CoreIds : Growth(i, c) > 0

(* -------------------------------- C25 ---------------------------------- *)
\* C25: with notifyDeschedule called before a process leaves its core, the
\* increments made while process p ran are counted for p and for no one else:
\* the slot of a process never holds more than that process accrued, and the
\* slot of "no process" holds nothing (cores count only while a process
\* runs).
C25_Attribution ==
    \A p \in Pids, i \in StatIds :
        /\ procStats[getGroupIdx(p)][i] <= accrued[p][i]
        /\ procStats[maxProcs - 1][i] = 0

(* ========================== Config (part_002) ========================== *)
\* the input files: a leaf x, a leaf *p, and g, a leaf or a group with the
\* members a and *q; a member needs its group, and a '*' setting
\* holds 0
WellFormed(t) ==
    /\ \A p \in DOMAIN t :
          /\ Len(p) = 2 => (<<p[1]>> \in DOMAIN t /\ t[<<p[1]>>] = GROUP)
          /\ p # <<"g">> => t[p] # GROUP
          /\ p[Len(p)] \in StarNames => t[p] = 0
Inputs ==
    {t \in UNION {[D -> Vals \cup {GROUP}] : D \in SUBSET Paths} : WellFormed(t)}

\* name[0] == '*'
IsNonSim(name) == name \in StarNames

\* config_lookup / config_setting_get_member: the setting at a path, if any
config_lookup(t, key) == IF key \in DOMAIN t THEN t[key] ELSE Absent

\* config_setting_add: a member can be added to a group (or the root) only
CanAdd(t, prefix) == prefix = <<>> \/ config_lookup(t, prefix) = GROUP

\* config_setting_get<T>: libconfig answers 0 for a setting of another type
config_setting_get(v) == IF v = GROUP THEN 0 ELSE v

\* getEq taking every two values for equal
getEqAlways(v1, v2) == TRUE

\* getEq<T>
getEq(v1, v2) == v1 = v2

RECURSIVE writeVar(_, _, _, _)
\* writeVar(setting, key, val), setting being the one at prefix: the config
\* after the write, and whether it panicked
writeVar(t, prefix, key, val) ==
    LET path == Append(prefix, Head(key))
    IN IF Len(key) > 1
       THEN IF path \in DOMAIN t THEN writeVar(t, path, Tail(key), val)
            ELSE IF ~CanAdd(t, prefix) THEN [cfg |-> t, panic |-> TRUE]
            ELSE writeVar(t @@ (path :> GROUP), path, Tail(key), val)
       ELSE IF path \notin DOMAIN t
            THEN IF CanAdd(t, prefix)
                 THEN [cfg |-> t @@ (path :> val), panic |-> FALSE]
                 ELSE [cfg |-> t, panic |-> TRUE]
            ELSE [cfg |-> t, panic |-> ~getEq(val, config_setting_get(t[path]))]

\* Config::genericGet(key, def), and genericGet(key) when def is NoDefault:
\* the output config after it, and whether it panicked
genericGet(key, def) ==
    LET setting == config_lookup(inCfg, key)
    IN IF setting = GROUP THEN [cfg |-> outCfg, panic |-> TRUE]
       ELSE IF setting = Absent /\ def = NoDefault THEN [cfg |-> outCfg, panic |-> TRUE]
       ELSE writeVar(outCfg, <<>>, key, IF setting = Absent THEN def ELSE setting)

\* the settings of s1 that the recursion of copyNonSimVars / checkIncluded
\* comes to: those whose enclosing settings are groups of s1 with a setting
\* of the same path in s2
Visited(s1, s2) ==
    {p \in DOMAIN s1 :
        \A k \in 1 .. (Len(p) - 1) :
            /\ s1[SubSeq(p, 1, k)] = GROUP
            /\ SubSeq(p, 1, k) \in DOMAIN s2}

\* the '*' settings copyNonSimVars adds to s2
NonSimVars(s1, s2) == {p \in Visited(s1, s2) : IsNonSim(p[Len(p)])}

\* copyNonSimVars(s1, s2, ""): s2 with the '*' settings added; it panics on
\* one that s2 already has, or that is a group
copyNonSimVars(s1, s2) ==
    LET stars == NonSimVars(s1, s2)
    IN [cfg |-> [p \in DOMAIN s2 \cup stars |-> IF p \in stars THEN s1[p] ELSE s2[p]],
        copied |-> Cardinality(stars),
        panic |-> \E p \in stars : p \in DOMAIN s2 \/ s1[p] = GROUP]

\* checkIncluded(s1, s2, ""): the settings of s1 it warns of
checkIncluded(s1, s2) == {p \in Visited(s1, s2) : p \notin DOMAIN s2}

\* whether writeAndClose panics on unused settings: if (unused) if (strictCheck)
UnusedIsFatal(unused, strict) == unused > 0 /\ strict

\* Config::get<T>(key) / get<T>(key, def)
Get(key, def) ==
    /\ cfgState = "open"
    /\ LET r == genericGet(key, def)
       IN /\ outCfg' = IF r.panic THEN outCfg ELSE r.cfg
          /\ cfgState' = IF r.panic THEN "panic" ELSE "open"
    /\ readKeys' = readKeys \cup {key}
    /\ lastGet' = <<key, def>>
    /\ UNCHANGED <<inCfg, strictCheck, warned, vars, psVars>>

\* Config::writeAndClose(outFile, strict), the file being writable
WriteAndClose(strict) ==
    /\ cfgState = "open"
    /\ LET c == copyNonSimVars(inCfg, outCfg)
           unused == IF c.panic THEN {} ELSE checkIncluded(inCfg, c.cfg)
       IN /\ warned' = unused
          /\ outCfg' = IF c.panic THEN outCfg ELSE c.cfg
          /\ cfgState' = IF c.panic \/ UnusedIsFatal(Cardinality(unused), strict)
                         THEN "panic" ELSE "closed"
    /\ strictCheck' = strict
    /\ lastGet' = NoGet
    /\ UNCHANGED <<inCfg, readKeys, vars, psVars>>

\* Config::Config(inFile) has read one of the input files; the TLB and
\* ProcStats stay as constructed
InitConfig ==
    /\ rev = 1 /\ numLines = 1 /\ accLat = 1 /\ invLat = MaxLat
    /\ pageWalk = ctorPageWalk /\ pageWalkLat = 0
    /\ array = [s \in 0 .. (numLines - 1) |-> Empty]
    /\ owner = [s \in 0 .. (numLines - 1) |-> NoProc]
    /\ locked = {}
    /\ pc = [c \in Cores |-> "idle"]
    /\ req = [c \in Cores |-> NoReq]
    /\ memReq = [c \in Cores |-> NoReq]
    /\ respCycle = [c \in Cores |-> NoCycle]
    /\ lineId = [c \in Cores |-> NotFound]
    /\ WbAddr = [c \in Cores |-> Empty]
    /\ skipAccess = [c \in Cores |-> FALSE]
    /\ accessed = [c \in Cores |-> FALSE]
    /\ calls = [c \in Cores |-> <<>>]
    /\ ret = [c \in Cores |-> NoCycle]
    /\ invCalls = <<>>
    /\ invReq = NoInv
    /\ invResp = NoCycle
    /\ fatal = "none"
    /\ ProcStatsNew
    /\ ConfigNew
    /\ inCfg \in Inputs

NextConfig ==
    \/ \E key \in GetKeys, def \in Vals \cup {NoDefault} : Get(key, def)
    \/ \E strict \in BOOLEAN : WriteAndClose(strict)

SpecConfig == InitConfig /\ [][NextConfig]_cfgVars

(* ------------------------------- C26 ----------------------------------- *)
\* the value a get of key with default def resolves to
Resolved(key, def) == IF key \in DOMAIN inCfg THEN inCfg[key] ELSE def

\* the key holds a value in the output config
Recorded(key) == key \in DOMAIN outCfg /\ outCfg[key] \in Vals

ReadSetting(p) ==
    IF inCfg[p] = GROUP
    THEN \E k \in readKeys : Len(k) > Len(p) /\ SubSeq(k, 1, Len(p)) = p
    ELSE p \in readKeys

\* the input settings never read and not '*'-prefixed
Unused == {p \in DOMAIN inCfg : ~IsNonSim(p[Len(p)]) /\ ~ReadSetting(p)}

\* of these, the ones not inside an unused group, which stands for its members
UnusedOutermost ==
    {p \in Unused : \A k \in 1 .. (Len(p) - 1) : SubSeq(p, 1, k) \notin Unused}

\* a '*'-prefixed input setting was itself read
NonSimRead == \E p \in DOMAIN inCfg : IsNonSim(p[Len(p)]) /\ p \in readKeys

\* writeAndClose has been called
WriteAndCloseDone == lastGet = NoGet /\ cfgState # "open"

\* C27: once writeAndClose has been called, a '*'-prefixed input setting
\* that was read has made it fatal; otherwise it has reported exactly the
\* input settings never read and not '*'-prefixed, it was fatal exactly when
\* there was one and strictCheck was given, and when it was not fatal every
\* '*'-prefixed input setting whose enclosing group was read is in the
\* output config with its input value.
C27_UnusedReported ==
    WriteAndCloseDone =>
        IF NonSimRead THEN cfgState = "panic"
        ELSE /\ warned = UnusedOutermost
             /\ cfgState = "panic" <=> (Unused # {} /\ strictCheck)
             /\ cfgState = "closed" =>
                   \A p \in DOMAIN inCfg :
                       (/\ IsNonSim(p[Len(p)])
                        /\ Len(p) > 1 => ReadSetting(SubSeq(p, 1, Len(p) - 1)))
                       => p \in DOMAIN outCfg /\ outCfg[p] = inCfg[p]

====
